---------------------------- MODULE Spec2Model ----------------------------
(***************************************************************************)
(* Euclidean-algorithm routines of the Linal_Lab repository.               *)
(*                                                                         *)
(*   src/hard_level.py    RingElement, _gcd_two_integers,                  *)
(*                        _polynomial_division, _gcd_two_polynomials,      *)
(*                        gcd_ring_elements                                *)
(*   src/normal_level.py  gcd_F11, inverse_F13 (extended elimination over  *)
(*                        GF(11) and GF(13))                               *)
(*                                                                         *)
(* Coefficients of the polynomials of hard_level.py are exact rationals    *)
(* <<n, d>> in lowest terms with d > 0 (Python numbers under exact         *)
(* arithmetic, e.g. fractions.Fraction).  A coefficient list is a sequence *)
(* with index 1 the constant term (Python index 0).                        *)
(***************************************************************************)
EXTENDS Integers, Sequences, FiniteSets, TLC

VARIABLES pc, args, locals, ret

vars == <<pc, args, locals, ret>>

NoValue == "none"

(***************************************************************************)
(* Bounds of the checked input spaces.                                     *)
(***************************************************************************)
MaxLenDiv == 3
MaxInt == 6
MaxListInt == 3
MaxN == 10
MaxIntMixed == 1
MaxLenMixed == 1
MaxLenGcd == 4
MaxLenGcd3 == 2
CoeffsGcd == {-1, 0, 1}
Coeffs == {-1, 0, 1, 2}

(***************************************************************************)
(* Exact rational arithmetic.                                              *)
(***************************************************************************)
Abs(x) == IF x < 0 THEN -x ELSE x

RECURSIVE NatGcd(_, _)
NatGcd(a, b) == IF b = 0 THEN a ELSE NatGcd(b, a % b)

Rat(n, d) ==
    LET s == IF d < 0 THEN -1 ELSE 1
        g == NatGcd(Abs(n), Abs(d))
    IN  <<(s * n) \div g, (s * d) \div g>>

Q(i) == <<i, 1>>
RZero == Q(0)
ROne == Q(1)
RSub(x, y) == Rat(x[1] * y[2] - y[1] * x[2], x[2] * y[2])
RAdd(x, y) == Rat(x[1] * y[2] + y[1] * x[2], x[2] * y[2])
RMul(x, y) == Rat(x[1] * y[1], x[2] * y[2])
RDiv(x, y) == Rat(x[1] * y[2], x[2] * y[1])

\* abs(c) < 1e-10 and abs(c) > 1e-10, with 1e-10 = 1 / (EpsRoot * EpsRoot)
EpsRoot == 100000
IsSmall(c) == c[1] = 0 \/ ((c[2] - 1) \div Abs(c[1])) \div EpsRoot >= EpsRoot
IsLarge(c) == c[1] # 0 /\ (c[2] \div Abs(c[1])) \div EpsRoot < EpsRoot

AllSmall(s) == \A i \in 1..Len(s) : IsSmall(s[i])

\* while len(s) > 1 and abs(s[-1]) < 1e-10: s.pop()
RECURSIVE Trim(_)
Trim(s) == IF Len(s) > 1 /\ IsSmall(s[Len(s)])
           THEN Trim(SubSeq(s, 1, Len(s) - 1))
           ELSE s

Reverse(s) == [i \in 1..Len(s) |-> s[Len(s) + 1 - i]]

SeqsUpTo(S, n) == UNION {[1..k -> S] : k \in 1..n}
ToPoly(s) == [i \in 1..Len(s) |-> Q(s[i])]

PolyInputs(n) == {ToPoly(s) : s \in SeqsUpTo(Coeffs, n)}
PolyInputsGcd(n) == {ToPoly(s) : s \in SeqsUpTo(CoeffsGcd, n)}

(***************************************************************************)
(* Reference polynomial algebra, used only to state properties.            *)
(***************************************************************************)
Coef(p, k) == IF k >= 1 /\ k <= Len(p) THEN p[k] ELSE RZero

RECURSIVE RSum(_, _, _)
RSum(f, lo, hi) == IF lo > hi THEN RZero ELSE RAdd(f[lo], RSum(f, lo + 1, hi))

RECURSIVE StripZeros(_)
StripZeros(s) == IF Len(s) > 1 /\ s[Len(s)] = RZero
                 THEN StripZeros(SubSeq(s, 1, Len(s) - 1))
                 ELSE s

PolyAdd(p, q) ==
    LET n == IF Len(p) > Len(q) THEN Len(p) ELSE Len(q)
    IN  [k \in 1..n |-> RAdd(Coef(p, k), Coef(q, k))]

PolyMul(p, q) ==
    [k \in 1..(Len(p) + Len(q) - 1) |->
        RSum([i \in 1..Len(p) |-> RMul(p[i], Coef(q, k + 1 - i))], 1, Len(p))]

PolyScale(p, c) == [k \in 1..Len(p) |-> RMul(p[k], c)]

\* equality of polynomials, coefficient by coefficient
PolyEq(p, q) == StripZeros(p) = StripZeros(q)
PolyIsZero(p) == \A i \in 1..Len(p) : p[i] = RZero
Degree(p) == Len(StripZeros(p)) - 1

(***************************************************************************)
(* _polynomial_division                                                    *)
(***************************************************************************)
\* a zero test that looks at the constant term only
DivisorIsZero_ConstantOnly(divisor) == IsSmall(divisor[1])

\* the guard of the division-by-zero error
DivisorIsZero(divisor) == AllSmall(divisor)

\* the while condition without the break
DivContinues_NoBreak(dividend, divisor) == Len(dividend) >= Len(divisor)

\* the while condition together with the break
DivContinues(dividend, divisor) ==
    Len(dividend) >= Len(divisor) /\ ~AllSmall(dividend)

DivCoeff(dividend, divisor) == RDiv(dividend[Len(dividend)], divisor[Len(divisor)])

\* the subtraction without the factor coeff
DivReduce_Unscaled(dividend, divisor) ==
    LET degree_diff == Len(dividend) - Len(divisor)
        sub == [k \in 1..Len(dividend) |->
                  IF k > degree_diff
                  THEN RSub(dividend[k], divisor[k - degree_diff])
                  ELSE dividend[k]]
    IN  SubSeq(sub, 1, Len(dividend) - 1)

\* one pass of the loop body: the in-place subtraction, then pop()
DivReduce(dividend, divisor) ==
    LET coeff == DivCoeff(dividend, divisor)
        degree_diff == Len(dividend) - Len(divisor)
        sub == [k \in 1..Len(dividend) |->
                  IF k > degree_diff
                  THEN RSub(dividend[k], RMul(coeff, divisor[k - degree_diff]))
                  ELSE dividend[k]]
    IN  SubSeq(sub, 1, Len(dividend) - 1)

DivFinish(dividend, quotient) ==
    [quotient  |-> IF quotient # <<>> THEN Reverse(quotient) ELSE <<RZero>>,
     remainder |-> IF dividend # <<>> THEN dividend ELSE <<RZero>>]

RECURSIVE DivLoop(_, _, _)
DivLoop(dividend, divisor, quotient) ==
    IF DivContinues(dividend, divisor)
    THEN DivLoop(DivReduce(dividend, divisor), divisor,
                 Append(quotient, DivCoeff(dividend, divisor)))
    ELSE DivFinish(dividend, quotient)

polynomial_division(p, q) ==
    LET dividend == Trim(p)
        divisor == Trim(q)
    IN  IF DivisorIsZero(divisor) THEN "ValueError"
        ELSE DivLoop(dividend, divisor, <<>>)

\* ---- the call as a state machine ----
InitDiv ==
    /\ pc = "div.call"
    /\ args \in PolyInputs(MaxLenDiv) \X PolyInputs(MaxLenDiv)
    /\ locals = NoValue
    /\ ret = NoValue

DivCall ==
    /\ pc = "div.call"
    /\ LET dividend == Trim(args[1])
           divisor == Trim(args[2])
       IN  IF DivisorIsZero(divisor)
           THEN /\ pc' = "div.raised"
                /\ ret' = "ValueError"
                /\ UNCHANGED locals
           ELSE /\ pc' = "div.loop"
                /\ locals' = [dividend |-> dividend, divisor |-> divisor,
                              quotient |-> <<>>]
                /\ UNCHANGED ret
    /\ UNCHANGED args

DivStep ==
    /\ pc = "div.loop"
    /\ DivContinues(locals.dividend, locals.divisor)
    /\ locals' = [locals EXCEPT
                    !.dividend = DivReduce(locals.dividend, locals.divisor),
                    !.quotient = Append(locals.quotient,
                                        DivCoeff(locals.dividend, locals.divisor))]
    /\ UNCHANGED <<pc, args, ret>>

DivReturn ==
    /\ pc = "div.loop"
    /\ ~DivContinues(locals.dividend, locals.divisor)
    /\ pc' = "div.done"
    /\ ret' = DivFinish(locals.dividend, locals.quotient)
    /\ UNCHANGED <<args, locals>>

NextDiv == DivCall \/ DivStep \/ DivReturn

SpecDiv == InitDiv /\ [][NextDiv]_vars

(***************************************************************************)
(* C1: for every polynomial p and non-zero q, _polynomial_division(p, q)   *)
(* returns (quotient, remainder) with q*quotient + remainder == p          *)
(* coefficient-wise; when q is a non-zero constant c the remainder is zero *)
(* and the quotient is p with every coefficient divided by c.              *)
(***************************************************************************)
C1_DivisionIdentity ==
    pc = "div.done" =>
        /\ PolyEq(PolyAdd(PolyMul(args[2], ret.quotient), ret.remainder), args[1])
        /\ Len(Trim(args[2])) = 1 =>
              /\ PolyIsZero(ret.remainder)
              /\ PolyEq(ret.quotient,
                        PolyScale(args[1], RDiv(ROne, Trim(args[2])[1])))

(***************************************************************************)
(* C8: _polynomial_division ends in the division-by-zero error for every   *)
(* divisor whose coefficients are all zero (un-normalised lists such as    *)
(* [0, 0] included) and every dividend, returning no quotient or           *)
(* remainder; and it raises for no divisor with a non-zero coefficient.    *)
(***************************************************************************)
C8_ZeroDivisorRaises ==
    /\ pc # "div.call" => (pc = "div.raised" <=> PolyIsZero(args[2]))
    /\ pc = "div.raised" => ret = "ValueError" /\ locals = NoValue
    /\ pc \in {"div.call", "div.loop"} => ret = NoValue

C8_Witness ==
    /\ pc = "div.raised"
    /\ Len(args[2]) = 2
    /\ ~PolyIsZero(args[1])

(***************************************************************************)
(* RingElement                                                             *)
(***************************************************************************)
\* a Python value handed to the constructor: an int or a list of numbers.
\* Both are stored as a sequence of rationals, the int i as the one entry i/1,
\* and told apart by is_list (isinstance(data, list)).
PyInt(i) == [is_list |-> FALSE, v |-> <<Q(i)>>]
IntValue(data) == data[1][1]
PyList(s) == [is_list |-> TRUE, v |-> s]

\* a constructor that keeps the list as given
RingElement_Untrimmed(data) ==
    [data |-> data.v, is_polynomial |-> data.is_list]

\* RingElement.__init__
RingElement(data) ==
    [data          |-> IF data.is_list THEN Trim(data.v) ELSE data.v,
     is_polynomial |-> data.is_list]

(***************************************************************************)
(* _gcd_two_integers                                                       *)
(***************************************************************************)
\* a, b = b, a % b written as two assignments in sequence
IntLoopBody_Sequential(a, b) == <<b, b % b>>

\* a, b = b, a % b
IntLoopBody(a, b) == <<b, a % b>>

RECURSIVE IntLoop(_, _)
IntLoop(a, b) == IF b # 0
                 THEN IntLoop(IntLoopBody(a, b)[1], IntLoopBody(a, b)[2])
                 ELSE a

gcd_two_integers(a, b) == IntLoop(Abs(a), Abs(b))

IntCall ==
    /\ pc = "int.call"
    /\ pc' = "int.loop"
    /\ locals' = [a |-> Abs(args[1]), b |-> Abs(args[2])]
    /\ UNCHANGED <<args, ret>>

IntStep ==
    /\ pc = "int.loop"
    /\ locals.b # 0
    /\ locals' = [a |-> IntLoopBody(locals.a, locals.b)[1],
                  b |-> IntLoopBody(locals.a, locals.b)[2]]
    /\ UNCHANGED <<pc, args, ret>>

IntReturn ==
    /\ pc = "int.loop"
    /\ locals.b = 0
    /\ pc' = "int.done"
    /\ ret' = locals.a
    /\ UNCHANGED <<args, locals>>

(***************************************************************************)
(* _gcd_two_polynomials                                                    *)
(***************************************************************************)
\* a, b = b, remainder, then the trim of b
PolyGcdBody(a, b) == <<b, Trim(polynomial_division(a, b).remainder)>>

RECURSIVE PolyGcdLoop(_, _)
PolyGcdLoop(a, b) == IF ~AllSmall(b)
                     THEN PolyGcdLoop(PolyGcdBody(a, b)[1], PolyGcdBody(a, b)[2])
                     ELSE a

\* the division by the leading coefficient left out
MakeMonic_Skipped(a) == a

\* if a and abs(a[-1]) > 1e-10: a = [c / leading_coeff for c in a]
MakeMonic(a) ==
    IF a # <<>> /\ IsLarge(a[Len(a)])
    THEN [k \in 1..Len(a) |-> RDiv(a[k], a[Len(a)])]
    ELSE a

gcd_two_polynomials(poly1, poly2) ==
    MakeMonic(PolyGcdLoop(Trim(poly1), Trim(poly2)))

(***************************************************************************)
(* gcd_ring_elements                                                       *)
(***************************************************************************)
\* the consistency loop stopping one element short of the end
TypeMismatch_SkipsLast(elements, is_polynomial) ==
    \E i \in 1..(Len(elements) - 1) : elements[i].is_polynomial # is_polynomial

\* for elem in elements: if elem.is_polynomial != is_polynomial: raise
TypeMismatch(elements, is_polynomial) ==
    \E i \in 1..Len(elements) : elements[i].is_polynomial # is_polynomial

\* one pass of the fold: result = gcd(result, elements[i]); a value of the
\* other variant makes abs() or the list copy raise TypeError
FoldBody(is_polynomial, result, elem) ==
    IF is_polynomial # elem.is_polynomial
    THEN [raised |-> TRUE, value |-> "TypeError"]
    ELSE [raised |-> FALSE,
          value  |-> IF is_polynomial
                     THEN gcd_two_polynomials(result, elem.data)
                     ELSE gcd_two_integers(result, Abs(IntValue(elem.data)))]

\* lines 132-141: the initial result
FoldStart(elements, is_polynomial) ==
    IF is_polynomial THEN elements[1].data ELSE Abs(IntValue(elements[1].data))

\* RingElement(result)
FoldFinish(is_polynomial, result) ==
    RingElement(IF is_polynomial THEN PyList(result) ELSE PyInt(result))

RECURSIVE FoldLoop(_, _, _, _)
FoldLoop(is_polynomial, result, elements, i) ==
    IF i < Len(elements)
    THEN LET r == FoldBody(is_polynomial, result, elements[i + 1])
         IN  IF r.raised THEN r
             ELSE FoldLoop(is_polynomial, r.value, elements, i + 1)
    ELSE [raised |-> FALSE, value |-> result]

\* the whole call; a raised error is returned as its name
gcd_ring_elements(elements) ==
    IF elements = <<>> THEN RingElement(PyInt(0))
    ELSE LET is_polynomial == elements[1].is_polynomial
             r == FoldLoop(is_polynomial, FoldStart(elements, is_polynomial),
                           elements, 1)
         IN  IF TypeMismatch(elements, is_polynomial) THEN "ValueError"
             ELSE IF r.raised THEN r.value
             ELSE FoldFinish(is_polynomial, r.value)

RingCall ==
    /\ pc = "ring.call"
    /\ IF args = <<>>
       THEN /\ pc' = "ring.done"
            /\ ret' = RingElement(PyInt(0))
            /\ UNCHANGED locals
       ELSE LET is_polynomial == args[1].is_polynomial
            IN  IF TypeMismatch(args, is_polynomial)
                THEN /\ pc' = "ring.raised"
                     /\ ret' = "ValueError"
                     /\ UNCHANGED locals
                ELSE /\ pc' = "ring.fold"
                     /\ locals' = [is_polynomial |-> is_polynomial,
                                   result |-> FoldStart(args, is_polynomial),
                                   i |-> 1,
                                   steps |-> 0]
                     /\ UNCHANGED ret
    /\ UNCHANGED args

RingFold ==
    /\ pc = "ring.fold"
    /\ locals.i < Len(args)
    /\ LET r == FoldBody(locals.is_polynomial, locals.result, args[locals.i + 1])
       IN  IF r.raised
           THEN /\ pc' = "ring.raised"
                /\ ret' = r.value
                /\ locals' = [locals EXCEPT !.steps = @ + 1]
           ELSE /\ locals' = [locals EXCEPT !.result = r.value, !.i = @ + 1,
                                            !.steps = @ + 1]
                /\ UNCHANGED <<pc, ret>>
    /\ UNCHANGED args

RingReturn ==
    /\ pc = "ring.fold"
    /\ locals.i >= Len(args)
    /\ pc' = "ring.done"
    /\ ret' = FoldFinish(locals.is_polynomial, locals.result)
    /\ UNCHANGED <<args, locals>>

\* ---- integer calls ----
IntInputs == (-MaxInt)..MaxInt
IntElements == {RingElement(PyInt(i)) : i \in IntInputs}

InitInt ==
    /\ \/ pc = "int.call" /\ args \in IntInputs \X IntInputs
       \/ pc = "ring.call" /\ args \in UNION {[1..k -> IntElements] : k \in 0..MaxListInt}
    /\ locals = NoValue
    /\ ret = NoValue

NextInt == IntCall \/ IntStep \/ IntReturn \/ RingCall \/ RingFold \/ RingReturn

SpecInt == InitInt /\ [][NextInt]_vars

(***************************************************************************)
(* Integer divisibility, by search.                                        *)
(***************************************************************************)
\* Python's  a % c == 0 ; the test raises ZeroDivisionError when c is 0
PyModIsZero(a, c) == c # 0 /\ a % Abs(c) = 0

\* c divides every member of S and no larger integer of the searched range does
IsLargestCommonDivisor(c, S) ==
    /\ \A x \in S : PyModIsZero(x, c)
    /\ \A d \in 1..(MaxInt + 1) : (\A x \in S : x % d = 0) => d <= c

ElementData(elements) == {IntValue(elements[i].data) : i \in 1..Len(elements)}

(***************************************************************************)
(* C2 as stated: for all integers a, b (zero included), c =                *)
(* _gcd_two_integers(a, b) satisfies a mod c == 0 and b mod c == 0 and is  *)
(* the largest integer dividing both; gcd_ring_elements over a list of     *)
(* integers returns this value folded over the list.                       *)
(***************************************************************************)
C2_IntGcdDividesBoth ==
    /\ pc = "int.done" => IsLargestCommonDivisor(ret, {args[1], args[2]})
    /\ pc = "ring.done" /\ Len(args) = 2 =>
          IntValue(ret.data) =
              gcd_two_integers(IntValue(args[1].data), IntValue(args[2].data))

(***************************************************************************)
(* C2 amended: the same for all a, b that are not both zero; for           *)
(* a = b = 0 the result is 0 (for which a mod c is undefined).             *)
(* gcd_ring_elements over a non-empty list of integers that are not all    *)
(* zero returns the largest integer dividing every element, and 0 for an   *)
(* empty or all-zero list.                                                 *)
(***************************************************************************)
C2_IntGcdNotBothZero ==
    /\ pc = "int.done" =>
          IF args[1] = 0 /\ args[2] = 0
          THEN ret = 0
          ELSE IsLargestCommonDivisor(ret, {args[1], args[2]})
    /\ pc = "ring.done" =>
          /\ ~ret.is_polynomial
          /\ IF ElementData(args) \subseteq {0}
             THEN IntValue(ret.data) = 0
             ELSE IsLargestCommonDivisor(IntValue(ret.data), ElementData(args))

C2_Witness ==
    /\ pc = "int.done"
    /\ args[1] < 0
    /\ args[2] > 1
    /\ ret > 1

(***************************************************************************)
(* Reference division: the remainder of p by a non-zero d, by the          *)
(* textbook rule.  Used only to state divisibility.                        *)
(***************************************************************************)
RECURSIVE RefRem(_, _)
RefRem(p, d) ==
    LET ps == StripZeros(p)
        ds == StripZeros(d)
        k  == Len(ps) - Len(ds)
        c  == RDiv(ps[Len(ps)], ds[Len(ds)])
        sub == [j \in 1..(Len(ps) - 1) |->
                  IF j > k THEN RSub(ps[j], RMul(c, ds[j - k])) ELSE ps[j]]
    IN  IF k < 0 \/ PolyIsZero(ps) THEN ps
        ELSE IF Len(ps) = 1 THEN <<RZero>>
        ELSE RefRem(sub, ds)

Divides(d, p) ==
    /\ ~PolyIsZero(d)
    /\ PolyIsZero(p) \/ Degree(d) <= Degree(p)
    /\ PolyIsZero(RefRem(p, d))

\* monic candidates for a common divisor, of degree up to MaxLenGcd - 2
MonicCandidates ==
    {Append(ToPoly(s), ROne) :
        s \in UNION {[1..k -> CoeffsGcd] : k \in 0..(MaxLenGcd - 2)}}

\* ---- gcd_ring_elements on polynomial elements ----
PolyElements(n) ==
    {RingElement(PyList(ToPoly(s))) : s \in SeqsUpTo(CoeffsGcd, n)}

InitPoly ==
    /\ pc = "ring.call"
    /\ \/ args \in [1..1 -> PolyElements(MaxLenGcd)]
       \/ args \in [1..2 -> PolyElements(MaxLenGcd)]
       \/ args \in [1..3 -> PolyElements(MaxLenGcd3)]
    /\ locals = NoValue
    /\ ret = NoValue

NextRing == RingCall \/ RingFold \/ RingReturn

SpecPoly == InitPoly /\ [][NextRing]_vars

(***************************************************************************)
(* C3: for polynomials p, q, not both zero, g = gcd_ring_elements([p, q])  *)
(* is a greatest common divisor: _polynomial_division(p, g) and            *)
(* _polynomial_division(q, g) return a zero remainder, and every common    *)
(* divisor of p and q divides g.  Instance: gcd([x^2-1, x^3-1]) = x-1,     *)
(* with x^2-1 a member of the ideal and x^2+x not a member.                *)
(***************************************************************************)
XSquaredMinusOne == ToPoly(<<-1, 0, 1>>)
XCubedMinusOne == ToPoly(<<-1, 0, 0, 1>>)
XSquaredPlusX == ToPoly(<<0, 1, 1>>)
XMinusOne == ToPoly(<<-1, 1>>)

IsMember(x, g) == AllSmall(polynomial_division(x, g).remainder)

C3_PolyGcdIsGreatest ==
    pc = "ring.done" /\ Len(args) = 2
        /\ ~(PolyIsZero(args[1].data) /\ PolyIsZero(args[2].data)) =>
        LET p == args[1].data
            q == args[2].data
            g == ret.data
        IN  /\ ret.is_polynomial
            /\ IsMember(p, g)
            /\ IsMember(q, g)
            /\ Divides(g, p) /\ Divides(g, q)
            /\ \A d \in MonicCandidates :
                  Divides(d, p) /\ Divides(d, q) => Divides(d, g)
            /\ (p = XSquaredMinusOne /\ q = XCubedMinusOne) =>
                  /\ g = XMinusOne
                  /\ IsMember(XSquaredMinusOne, g)
                  /\ ~IsMember(XSquaredPlusX, g)

C3_Witness ==
    /\ pc = "ring.done"
    /\ Len(args) = 2
    /\ args[1].data = XSquaredMinusOne
    /\ args[2].data = XCubedMinusOne
    /\ ret.data = XMinusOne

(***************************************************************************)
(* C4: for every non-empty list of polynomial RingElements, of any length  *)
(* including exactly one element, gcd_ring_elements returns either the     *)
(* zero polynomial [0] or a monic polynomial.                              *)
(***************************************************************************)
C4_ZeroOrMonic ==
    pc = "ring.done" =>
        \/ ret.data = <<RZero>>
        \/ ret.data[Len(ret.data)] = ROne

\* ---- gcd_ring_elements on lists that may mix the two variants ----
MixedElements ==
    {RingElement(PyInt(i)) : i \in (-MaxIntMixed)..MaxIntMixed}
        \cup PolyElements(MaxLenMixed)

InitRing ==
    /\ pc = "ring.call"
    /\ args \in UNION {[1..k -> MixedElements] : k \in 0..MaxListInt}
    /\ locals = NoValue
    /\ ret = NoValue

SpecRing == InitRing /\ [][NextRing]_vars

IsMixed(elements) ==
    \E i, j \in 1..Len(elements) :
        elements[i].is_polynomial # elements[j].is_polynomial

(***************************************************************************)
(* C9: gcd_ring_elements ends in the type-consistency error for every list *)
(* holding both an integer and a polynomial element, wherever they are     *)
(* (a mismatch in the last position included); the error is raised before  *)
(* any pairwise gcd step; and no error is raised for a list of one         *)
(* variant.                                                                *)
(***************************************************************************)
C9_TypeConsistency ==
    /\ pc # "ring.call" /\ IsMixed(args) =>
          /\ pc = "ring.raised"
          /\ ret = "ValueError"
          /\ locals = NoValue
    /\ ~IsMixed(args) => pc # "ring.raised"
    /\ pc = "ring.fold" => locals.steps = locals.i - 1

C9_Witness ==
    /\ pc = "ring.raised"
    /\ Len(args) = 3
    /\ args[1].is_polynomial = args[2].is_polynomial
    /\ args[3].is_polynomial # args[1].is_polynomial

\* ---- gcd of three values, taken in every grouping and order ----
Gcd2(is_polynomial, a, b) ==
    IF is_polynomial THEN gcd_two_polynomials(a, b) ELSE gcd_two_integers(a, b)

AsElement(is_polynomial, x) ==
    RingElement(IF is_polynomial THEN PyList(x) ELSE PyInt(x))

Orders3 == {<<1, 2, 3>>, <<1, 3, 2>>, <<2, 1, 3>>, <<2, 3, 1>>, <<3, 1, 2>>, <<3, 2, 1>>}

InitAssoc ==
    /\ pc = "assoc.call"
    /\ \/ args \in [is_polynomial : {FALSE}, v : [1..3 -> IntInputs]]
       \/ args \in [is_polynomial : {TRUE}, v : [1..3 -> PolyInputsGcd(MaxLenGcd3)]]
    /\ locals = NoValue
    /\ ret = NoValue

\* gcd(a, b), gcd(b, a), gcd(b, c)
AssocPairs ==
    /\ pc = "assoc.call"
    /\ pc' = "assoc.pairs"
    /\ locals' = [ab |-> Gcd2(args.is_polynomial, args.v[1], args.v[2]),
                  ba |-> Gcd2(args.is_polynomial, args.v[2], args.v[1]),
                  bc |-> Gcd2(args.is_polynomial, args.v[2], args.v[3])]
    /\ UNCHANGED <<args, ret>>

\* gcd(gcd(a, b), c), gcd(a, gcd(b, c))
AssocTriples ==
    /\ pc = "assoc.pairs"
    /\ pc' = "assoc.triples"
    /\ ret' = [ab_c |-> Gcd2(args.is_polynomial, locals.ab, args.v[3]),
               a_bc |-> Gcd2(args.is_polynomial, args.v[1], locals.bc)]
    /\ UNCHANGED <<args, locals>>

\* gcd_ring_elements on the three elements in each order, and on the first two
AssocLists ==
    /\ pc = "assoc.triples"
    /\ pc' = "assoc.lists"
    /\ LET e == [i \in 1..3 |-> AsElement(args.is_polynomial, args.v[i])]
       IN  ret' = [three |-> [o \in Orders3 |->
                                gcd_ring_elements(<<e[o[1]], e[o[2]], e[o[3]]>>)],
                   two |-> <<gcd_ring_elements(<<e[1], e[2]>>),
                             gcd_ring_elements(<<e[2], e[1]>>)>>]
    /\ UNCHANGED <<args, locals>>

NextAssoc == AssocPairs \/ AssocTriples \/ AssocLists

SpecAssoc == InitAssoc /\ [][NextAssoc]_vars

(***************************************************************************)
(* C10: gcd is commutative and associative: gcd(a, b) == gcd(b, a) and     *)
(* gcd(gcd(a, b), c) == gcd(a, gcd(b, c)), exactly for integers and as     *)
(* monic polynomials for polynomials, zero arguments included; hence       *)
(* gcd_ring_elements of a list of two or more elements does not depend on  *)
(* the order of the list.                                                  *)
(***************************************************************************)
C10_CommutativeAssociative ==
    /\ pc \in {"assoc.pairs", "assoc.triples", "assoc.lists"} =>
          locals.ab = locals.ba
    /\ pc = "assoc.triples" => ret.ab_c = ret.a_bc
    /\ pc = "assoc.lists" =>
          /\ \A o \in Orders3 : ret.three[o] = ret.three[<<1, 2, 3>>]
          /\ ret.two[1] = ret.two[2]
          /\ ret.two[1].is_polynomial = args.is_polynomial

C10_Witness ==
    /\ pc = "assoc.lists"
    /\ args.is_polynomial
    /\ PolyIsZero(args.v[1])
    /\ Len(ret.three[<<3, 2, 1>>].data) = 2
    /\ args.v[2] # args.v[3]
    /\ ~PolyIsZero(args.v[2]) /\ ~PolyIsZero(args.v[3])

(***************************************************************************)
(* gcd_F11 and inverse_F13: the extended elimination over a prime field.   *)
(* A galois.Poly over GF(p) is a sequence of residues 0..p-1, index 1 the  *)
(* constant term, without zero leading terms; the zero polynomial is <<0>>.*)
(* Poly.coeffs[0] is the last entry.  The scalars field(1) and field(0)    *)
(* the tables start with are the constant polynomials <<1>> and <<0>>.     *)
(***************************************************************************)
FZero == <<0>>
FOne == <<1>>

RECURSIVE FNorm(_)
FNorm(a) == IF Len(a) > 1 /\ a[Len(a)] = 0
            THEN FNorm(SubSeq(a, 1, Len(a) - 1))
            ELSE a

FCoef(a, k) == IF k >= 1 /\ k <= Len(a) THEN a[k] ELSE 0
FMax(m, n) == IF m > n THEN m ELSE n

\* Poly - Poly
FSub(p, a, b) ==
    FNorm([k \in 1..FMax(Len(a), Len(b)) |-> (FCoef(a, k) - FCoef(b, k)) % p])

FAdd(p, a, b) ==
    FNorm([k \in 1..FMax(Len(a), Len(b)) |-> (FCoef(a, k) + FCoef(b, k)) % p])

RECURSIVE FSum(_, _, _, _)
FSum(p, f, lo, hi) ==
    IF lo > hi THEN 0 ELSE (f[lo] + FSum(p, f, lo + 1, hi)) % p

\* Poly * Poly
FMul(p, a, b) ==
    FNorm([k \in 1..(Len(a) + Len(b) - 1) |->
             FSum(p, [i \in 1..Len(a) |-> (a[i] * FCoef(b, k + 1 - i)) % p],
                  1, Len(a))])

\* Poly.degree
FDegree(a) == Len(a) - 1

\* Poly.coeffs[0]
FLead(a) == a[Len(a)]

\* Poly([1] + [0 for _ in range(k)], field=field)
XPower(k) == [i \in 1..(k + 1) |-> IF i = k + 1 THEN 1 ELSE 0]

\* field inverse of a non-zero residue
FInv(p, c) == CHOOSE x \in 1..(p - 1) : (x * c) % p = 1

\* Poly // Poly for a divisor of degree 0
FFloorDivConst(p, a, c) == FMul(p, a, <<FInv(p, c[1])>>)

\* rm(N, m) and st(N, t)
rm(N, m) == (m + N) % 11
st(N, t) == (t + N) % 11

\* coefficients_g of inverse_F13, constant term first
G13 == <<2, 6, 0, 1, 1, 0, 0, 0, 1>>

Field(fn) == IF fn = "gcd_F11" THEN 11 ELSE 13

FuncF(fn, N) ==
    IF fn = "gcd_F11"
    THEN FNorm([i \in 1..8 |-> rm(N, i - 1)])
    ELSE FNorm([i \in 1..4 |-> st(N, i - 1)])

FuncG(fn, N) ==
    IF fn = "gcd_F11"
    THEN FNorm([i \in 1..4 |-> st(N, i - 1)])
    ELSE G13

\* the three updates of one row with the multiplier left off the coefficients
Eliminate_CoeffsUnshifted(p, row, other, k) ==
    <<FSub(p, row[1], FMul(p, other[1], XPower(k))),
      FSub(p, row[2], other[2]),
      FSub(p, row[3], other[3])>>

\* an update that leaves the row as it is
Eliminate_RowKept(p, row, other, k) == row

\* row[j] -= other[j] * Poly(coef_to_multiply), j = 0, 1, 2
Eliminate(p, row, other, k) ==
    <<FSub(p, row[1], FMul(p, other[1], XPower(k))),
      FSub(p, row[2], FMul(p, other[2], XPower(k))),
      FSub(p, row[3], FMul(p, other[3], XPower(k)))>>

\* the loop condition
ExtContinues(table1, table2) == table1[1] # FZero /\ table2[1] # FZero

\* the row that is always table1
ResultRow_AlwaysFirst(table1, table2) == table1

\* the row the return statements read
ResultRow(table1, table2) == IF table1[1] = FZero THEN table2 ELSE table1

\* the inverse taken without the division by the constant
InverseOf_Unscaled(p, row) == row[2]

\* func_h = table[1] // table[0]
InverseOf(p, row) == FFloorDivConst(p, row[2], row[1])

InitExt ==
    /\ pc = "ext.call"
    /\ args \in [fn : {"gcd_F11", "inverse_F13"}, N : 0..MaxN]
    /\ locals = NoValue
    /\ ret = NoValue

ExtCall ==
    /\ pc = "ext.call"
    /\ pc' = "ext.loop"
    /\ locals' = [field |-> Field(args.fn),
                  func_f |-> FuncF(args.fn, args.N),
                  func_g |-> FuncG(args.fn, args.N),
                  table1 |-> <<FuncF(args.fn, args.N), FOne, FZero>>,
                  table2 |-> <<FuncG(args.fn, args.N), FZero, FOne>>]
    /\ UNCHANGED <<args, ret>>

ExtStep ==
    /\ pc = "ext.loop"
    /\ ExtContinues(locals.table1, locals.table2)
    /\ LET t1 == locals.table1
           t2 == locals.table2
           p == locals.field
       IN  IF FDegree(t1[1]) > FDegree(t2[1])
           THEN locals' = [locals EXCEPT !.table1 =
                    Eliminate(p, t1, t2, FDegree(t1[1]) - FDegree(t2[1]))]
           ELSE IF FDegree(t1[1]) < FDegree(t2[1])
           THEN locals' = [locals EXCEPT !.table2 =
                    Eliminate(p, t2, t1, FDegree(t2[1]) - FDegree(t1[1]))]
           ELSE IF FLead(t1[1]) >= FLead(t2[1])
           THEN locals' = [locals EXCEPT !.table1 = Eliminate(p, t1, t2, 0)]
           ELSE locals' = [locals EXCEPT !.table2 = Eliminate(p, t2, t1, 0)]
    /\ UNCHANGED <<pc, args, ret>>

ExtReturn ==
    /\ pc = "ext.loop"
    /\ ~ExtContinues(locals.table1, locals.table2)
    /\ pc' = "ext.done"
    /\ LET row == ResultRow(locals.table1, locals.table2)
       IN  IF args.fn = "gcd_F11"
           THEN ret' = [gcd |-> row[1], s |-> row[2], t |-> row[3]]
           ELSE IF FDegree(row[1]) # 0
           THEN ret' = [invertible |-> FALSE, h |-> FZero]
           ELSE ret' = [invertible |-> TRUE,
                        h |-> InverseOf(locals.field, row)]
    /\ UNCHANGED <<args, locals>>

NextExt == ExtCall \/ ExtStep \/ ExtReturn

SpecExt == InitExt /\ [][NextExt]_vars

(***************************************************************************)
(* Reference arithmetic over GF(p): remainder and gcd by the textbook      *)
(* rule.  Used only to state properties.                                   *)
(***************************************************************************)
RECURSIVE FRem(_, _, _)
FRem(p, a, d) ==
    LET k == Len(a) - Len(d)
        c == (FLead(a) * FInv(p, FLead(d))) % p
    IN  IF k < 0 \/ a = FZero THEN a
        ELSE FRem(p, FSub(p, a, FMul(p, FMul(p, d, <<c>>), XPower(k))), d)

RECURSIVE FRefGcd(_, _, _)
FRefGcd(p, a, b) == IF b = FZero THEN a ELSE FRefGcd(p, b, FRem(p, a, b))

FDivides(p, d, a) == d # FZero /\ FRem(p, a, d) = FZero

Bezout(p, row, f, g) ==
    FAdd(p, FMul(p, row[2], f), FMul(p, row[3], g)) = row[1]

(***************************************************************************)
(* C5: in the elimination of gcd_F11 and inverse_F13, with the triples     *)
(* initialised to (f, 1, 0) and (g, 0, 1), coeff_on_f * f + coeff_on_g * g *)
(* == remainder holds for both triples before and after every loop step,   *)
(* and the returned (gcd, s, t) satisfies s*f + t*g == gcd.                *)
(***************************************************************************)
C5_BezoutInvariant ==
    /\ pc \in {"ext.loop", "ext.done"} =>
          /\ Bezout(locals.field, locals.table1, locals.func_f, locals.func_g)
          /\ Bezout(locals.field, locals.table2, locals.func_f, locals.func_g)
    /\ pc = "ext.done" /\ args.fn = "gcd_F11" =>
          Bezout(locals.field, <<ret.gcd, ret.s, ret.t>>,
                 locals.func_f, locals.func_g)

C5_Witness ==
    /\ pc = "ext.done"
    /\ args.fn = "gcd_F11"
    /\ FDegree(ret.s) > 0
    /\ FDegree(ret.t) > 0
    /\ ret.gcd # FZero

(***************************************************************************)
(* C6: when the loop exits, the other triple's remainder is a greatest     *)
(* common divisor of f and g up to a non-zero scalar: it divides f and g   *)
(* and has the degree of their monic gcd.                                  *)
(***************************************************************************)
C6_ExitRemainderIsGcd ==
    pc = "ext.done" =>
        LET p == locals.field
            f == locals.func_f
            g == locals.func_g
            r == IF args.fn = "gcd_F11" THEN ret.gcd
                 ELSE IF locals.table1[1] = FZero THEN locals.table2[1]
                 ELSE locals.table1[1]
        IN  /\ locals.table1[1] = FZero \/ locals.table2[1] = FZero
            /\ FDivides(p, r, f)
            /\ FDivides(p, r, g)
            /\ FDegree(r) = FDegree(FRefGcd(p, f, g))

C6_Witness ==
    /\ pc = "ext.done"
    /\ args.fn = "gcd_F11"
    /\ FLead(ret.gcd) # 1
    /\ locals.table1[1] = FZero

(***************************************************************************)
(* C7: inverse_F13 returns h with (h*f) mod g == 1 exactly when gcd(f, g)  *)
(* has degree 0, and the distinguishable not-invertible result exactly     *)
(* when f and g share a factor of positive degree (or f is zero).          *)
(***************************************************************************)
C7_InverseExactlyWhenCoprime ==
    pc = "ext.done" /\ args.fn = "inverse_F13" =>
        LET p == locals.field
            f == locals.func_f
            g == locals.func_g
            d == FRefGcd(p, f, g)
        IN  /\ ret.invertible <=> (f # FZero /\ FDegree(d) = 0)
            /\ ret.invertible => FRem(p, FMul(p, ret.h, f), g) = FOne

C7_Witness ==
    /\ pc = "ext.done"
    /\ args.fn = "inverse_F13"
    /\ ret.invertible
    /\ FDegree(ret.h) > 0

(***************************************************************************)
(* Lists as objects.  A Python list is an object that several names can    *)
(* refer to; pop() and item assignment change the object for all of them.  *)
(* A heap is a sequence of list contents and a reference is an index into  *)
(* it.  The int of an integer RingElement is the immutable one-entry       *)
(* object <<i/1>>.  In the specifications of this section  args  holds the *)
(* caller's heap and references as they are before the call and  locals    *)
(* the heap as it is now.                                                  *)
(***************************************************************************)
\* a new object
Alloc(h, v) == <<Append(h, v), Len(h) + 1>>

\* the value of an expression computed once: the element of a one-element set
TheOnly(S) == CHOOSE x \in S : TRUE

\* the working name bound to the argument itself
CopyList_Alias(h, r) == <<h, r>>

\* [element for element in x]  and  x[:]
CopyList(h, r) == <<Append(h, h[r]), Len(h) + 1>>

\* while len(x) > 1 and abs(x[-1]) < 1e-10: x.pop()
TrimInPlace(h, r) == [h EXCEPT ![r] = Trim(@)]

\* the contents of the working dividend when the loop is left
RECURSIVE DivFinalDividend(_, _)
DivFinalDividend(dividend, divisor) ==
    IF DivContinues(dividend, divisor)
    THEN DivFinalDividend(DivReduce(dividend, divisor), divisor)
    ELSE dividend

\* _polynomial_division on objects
HDivision(h, p, q) ==
    LET c1 == CopyList(h, p)
        c2 == CopyList(c1[1], q)
        dividend == c1[2]
        divisor == c2[2]
        h2 == TrimInPlace(TrimInPlace(c2[1], dividend), divisor)
    IN  IF DivisorIsZero(h2[divisor])
        THEN [heap |-> h2, raised |-> TRUE, quotient |-> 0, remainder |-> 0]
        ELSE LET r == DivLoop(h2[dividend], h2[divisor], <<>>)
                 left == DivFinalDividend(h2[dividend], h2[divisor])
                 h3 == [h2 EXCEPT ![dividend] = left]
                 qa == Alloc(h3, r.quotient)
                 ra == IF left # <<>> THEN <<qa[1], dividend>>
                       ELSE Alloc(qa[1], r.remainder)
             IN  [heap |-> ra[1], raised |-> FALSE,
                  quotient |-> qa[2], remainder |-> ra[2]]

\* the loop of _gcd_two_polynomials on objects: <<heap, a>> at its end
RECURSIVE HGcdLoop(_, _, _)
\* a, b = b, remainder and the trim of b, for the result d of the division
HGcdLoopNext(d, b) == HGcdLoop(TrimInPlace(d.heap, d.remainder), b, d.remainder)

HGcdLoop(h, a, b) ==
    IF ~AllSmall(h[b])
    THEN TheOnly({HGcdLoopNext(d, b) : d \in {HDivision(h, a, b)}})
    ELSE <<h, a>>

\* _gcd_two_polynomials on objects: <<heap, reference of the result>>
\* the normalisation of the a the loop ended with; e is <<heap, a>>
HGcdMonic(e) ==
    LET a == e[1][e[2]]
    IN  IF a # <<>> /\ IsLarge(a[Len(a)])
        THEN Alloc(e[1], MakeMonic(a))
        ELSE e

HGcdTwoPolynomials(h, poly1, poly2) ==
    LET c1 == CopyList(h, poly1)
        c2 == CopyList(c1[1], poly2)
        h2 == TrimInPlace(TrimInPlace(c2[1], c1[2]), c2[2])
    IN  TheOnly({HGcdMonic(e) : e \in {HGcdLoop(h2, c1[2], c2[2])}})

\* RingElement.__init__ on objects: self.data = data, then the trim of
\* self.data; <<heap, element>>
HRingElement(h, data, is_list) ==
    <<IF is_list THEN TrimInPlace(h, data) ELSE h,
      [data |-> data, is_polynomial |-> is_list]>>

\* the fold of gcd_ring_elements over polynomial elements: <<heap, result>>
RECURSIVE HFoldPoly(_, _, _, _)
\* result = the reference g[2] returned by _gcd_two_polynomials
HFoldPolyNext(g, elements, i) == HFoldPoly(g[1], g[2], elements, i)

HFoldPoly(h, result, elements, i) ==
    IF i < Len(elements)
    THEN TheOnly({HFoldPolyNext(g, elements, i + 1) :
                    g \in {HGcdTwoPolynomials(h, result, elements[i + 1].data)}})
    ELSE <<h, result>>

RECURSIVE HFoldInt(_, _, _, _)
HFoldInt(h, result, elements, i) ==
    IF i < Len(elements)
    THEN HFoldInt(h, gcd_two_integers(result, Abs(IntValue(h[elements[i + 1].data]))),
                  elements, i + 1)
    ELSE result

\* gcd_ring_elements on objects
HGcdRingElements(h, elements) ==
    IF elements = <<>>
    THEN LET z == Alloc(h, <<Q(0)>>)
         IN  [heap |-> z[1], raised |-> FALSE,
              value |-> HRingElement(z[1], z[2], FALSE)[2]]
    ELSE IF TypeMismatch(elements, elements[1].is_polynomial)
    THEN [heap |-> h, raised |-> TRUE, value |-> [data |-> 0, is_polynomial |-> FALSE]]
    ELSE IF elements[1].is_polynomial
    THEN LET c == CopyList(h, elements[1].data)
         IN  TheOnly({[heap |-> HRingElement(f[1], f[2], TRUE)[1], raised |-> FALSE,
                       value |-> HRingElement(f[1], f[2], TRUE)[2]] :
                         f \in {HFoldPoly(c[1], c[2], elements, 1)}})
    ELSE LET r == HFoldInt(h, Abs(IntValue(h[elements[1].data])), elements, 1)
             z == Alloc(h, <<Q(r)>>)
         IN  [heap |-> z[1], raised |-> FALSE,
              value |-> HRingElement(z[1], z[2], FALSE)[2]]

\* ---- calls on the caller's objects ----
\* the elements of a list of RingElement values as objects: the i-th
\* element's data is object i
ElementObjects(elements) ==
    [heap |-> [i \in 1..Len(elements) |-> elements[i].data],
     in   |-> [i \in 1..Len(elements) |->
                 [data |-> i, is_polynomial |-> elements[i].is_polynomial]]]

MaxLenFrame == 2
MaxListFrame == 2

FrameElements ==
    {RingElement(PyInt(i)) : i \in -1..1} \cup PolyElements(MaxLenFrame)
FrameElementsShort ==
    {RingElement(PyInt(1))} \cup PolyElements(MaxLenFrame - 1)

FrameRingInputs ==
    {ElementObjects(e) :
        e \in UNION {[1..k -> FrameElements] : k \in 0..MaxListFrame}
              \cup [1..(MaxListFrame + 1) -> FrameElementsShort]}

InitFrame ==
    /\ pc = "frame.call"
    /\ \/ args \in [fn : {"polynomial_division"},
                    heap : [1..2 -> PolyInputsGcd(MaxLenFrame)], in : {<<1, 2>>}]
       \/ args \in [fn : {"polynomial_division"},
                    heap : [1..1 -> PolyInputsGcd(MaxLenFrame)], in : {<<1, 1>>}]
       \/ args \in [fn : {"gcd_two_polynomials"},
                    heap : [1..2 -> PolyInputsGcd(MaxLenFrame)], in : {<<1, 2>>}]
       \/ \E o \in FrameRingInputs :
             args = [fn |-> "gcd_ring_elements", heap |-> o.heap, in |-> o.in]
    /\ locals = NoValue
    /\ ret = NoValue

FrameDivision ==
    /\ pc = "frame.call"
    /\ args.fn = "polynomial_division"
    /\ LET d == HDivision(args.heap, args.in[1], args.in[2])
       IN  /\ pc' = IF d.raised THEN "frame.raised" ELSE "frame.done"
           /\ locals' = d.heap
           /\ ret' = IF d.raised THEN "ValueError"
                     ELSE <<d.quotient, d.remainder>>
    /\ UNCHANGED args

FrameGcdPolynomials ==
    /\ pc = "frame.call"
    /\ args.fn = "gcd_two_polynomials"
    /\ LET g == HGcdTwoPolynomials(args.heap, args.in[1], args.in[2])
       IN  /\ pc' = "frame.done"
           /\ locals' = g[1]
           /\ ret' = g[2]
    /\ UNCHANGED args

FrameRingElements ==
    /\ pc = "frame.call"
    /\ args.fn = "gcd_ring_elements"
    /\ LET g == HGcdRingElements(args.heap, args.in)
       IN  /\ pc' = IF g.raised THEN "frame.raised" ELSE "frame.done"
           /\ locals' = g.heap
           /\ ret' = IF g.raised THEN "ValueError" ELSE g.value
    /\ UNCHANGED args

NextFrame == FrameDivision \/ FrameGcdPolynomials \/ FrameRingElements

SpecFrame == InitFrame /\ [][NextFrame]_vars

(***************************************************************************)
(* C11: after any call to gcd_ring_elements, _gcd_two_polynomials or       *)
(* _polynomial_division, whether it returns or raises, every input         *)
(* coefficient list and the data of every input RingElement equals its     *)
(* value before the call: all reduction steps act on copies made inside    *)
(* the call.                                                               *)
(***************************************************************************)
C11_InputsUnchanged ==
    pc \in {"frame.done", "frame.raised"} =>
        /\ Len(locals) >= Len(args.heap)
        /\ \A r \in 1..Len(args.heap) : locals[r] = args.heap[r]

\* a division that reduced its working copy (object 3) and returned
C11_Witness ==
    /\ pc = "frame.done"
    /\ args.fn = "polynomial_division"
    /\ Len(args.heap) = 2
    /\ locals[3] # args.heap[1]
    /\ locals[1] = args.heap[1]
    /\ Len(args.heap[1]) = 2

\* the results on objects are those of the functions on values
FrameAgreesWithValues ==
    pc = "frame.done" =>
        IF args.fn = "polynomial_division"
        THEN [quotient |-> locals[ret[1]], remainder |-> locals[ret[2]]]
                = polynomial_division(args.heap[args.in[1]], args.heap[args.in[2]])
        ELSE IF args.fn = "gcd_two_polynomials"
        THEN locals[ret] = gcd_two_polynomials(args.heap[1], args.heap[2])
        ELSE [data |-> locals[ret.data], is_polynomial |-> ret.is_polynomial]
                = gcd_ring_elements([i \in 1..Len(args.in) |->
                      [data |-> args.heap[i],
                       is_polynomial |-> args.in[i].is_polynomial]])

(***************************************************************************)
(* RingElement: construction, degree and is_zero                           *)
(***************************************************************************)
MaxLenNorm == 4

\* RingElement.degree
degree(e) == IF e.is_polynomial THEN Len(e.data) - 1 ELSE 0

\* RingElement.is_zero
is_zero(e) == IF e.is_polynomial THEN AllSmall(e.data) ELSE IntValue(e.data) = 0

RawLists == {<<>>} \cup PolyInputs(MaxLenNorm)
NormElements ==
    {RingElement(PyList(s)) : s \in {<<>>} \cup PolyInputsGcd(MaxLenGcd3 + 1)}

InitNorm ==
    /\ pc = "norm.call"
    /\ \/ args \in [fn : {"RingElement"}, data : RawLists]
       \/ args \in [fn : {"gcd_ring_elements"},
                    elements : [1..1 -> NormElements] \cup [1..2 -> NormElements]]
    /\ locals = NoValue
    /\ ret = NoValue

NormConstruct ==
    /\ pc = "norm.call"
    /\ args.fn = "RingElement"
    /\ LET e == RingElement(PyList(args.data))
       IN  /\ ret' = e
           /\ locals' = [degree |-> degree(e), is_zero |-> is_zero(e)]
    /\ pc' = "norm.done"
    /\ UNCHANGED args

NormGcd ==
    /\ pc = "norm.call"
    /\ args.fn = "gcd_ring_elements"
    /\ LET e == gcd_ring_elements(args.elements)
       IN  /\ ret' = e
           /\ locals' = [degree |-> degree(e), is_zero |-> is_zero(e)]
    /\ pc' = "norm.done"
    /\ UNCHANGED args

NextNorm == NormConstruct \/ NormGcd

SpecNorm == InitNorm /\ [][NextNorm]_vars

IsPrefix(s, t) == Len(s) <= Len(t) /\ \A i \in 1..Len(s) : s[i] = t[i]

(***************************************************************************)
(* C12: every polynomial RingElement, constructed from any coefficient     *)
(* list or returned by gcd_ring_elements, is normalised: its highest       *)
(* coefficient is not zero unless the element is exactly [0], its          *)
(* coefficients are the low-order coefficients of the input in the same    *)
(* order, degree() is the length minus 1, and is_zero() holds exactly when *)
(* every coefficient is zero.                                              *)
(***************************************************************************)
C12_Normalised ==
    pc = "norm.done" =>
        LET d == ret.data
        IN  /\ ret.is_polynomial
            /\ (Len(d) > 0 /\ d[Len(d)] = RZero) => d = <<RZero>>
            /\ args.fn = "RingElement" =>
                  /\ IsPrefix(d, args.data)
                  /\ \A i \in (Len(d) + 1)..Len(args.data) : args.data[i] = RZero
            /\ locals.degree = Len(d) - 1
            /\ locals.is_zero <=> PolyIsZero(d)

\* a list whose two highest coefficients were dropped by the constructor
C12_Witness ==
    /\ pc = "norm.done"
    /\ args.fn = "RingElement"
    /\ Len(args.data) = 4
    /\ Len(ret.data) = 2
    /\ locals.degree = 1
    /\ ~locals.is_zero

\* a greatest common divisor of degree 1 returned for two elements
C12_WitnessGcd ==
    /\ pc = "norm.done"
    /\ args.fn = "gcd_ring_elements"
    /\ Len(args.elements) = 2
    /\ locals.degree = 1

(***************************************************************************)
(* subgroups_of_Zm_star                                                    *)
(***************************************************************************)
\* units = [a for a in range(1, m) if gcd(a, m) == 1]
RECURSIVE UnitsFrom(_, _)
UnitsFrom(a, m) ==
    IF a >= m THEN <<>>
    ELSE (IF NatGcd(a, m) = 1 THEN <<a>> ELSE <<>>) \o UnitsFrom(a + 1, m)

\* sorted(subgroup)
RECURSIVE InsertSorted(_, _)
InsertSorted(s, x) ==
    IF s = <<>> THEN <<x>>
    ELSE IF x < Head(s) THEN <<x>> \o s
    ELSE <<Head(s)>> \o InsertSorted(Tail(s), x)

RECURSIVE Sorted(_)
Sorted(s) == IF s = <<>> THEN <<>>
             ELSE InsertSorted(Sorted(SubSeq(s, 1, Len(s) - 1)), s[Len(s)])

\* comparison of lists, and of the keys (len(x), x)
RECURSIVE ListLess(_, _)
ListLess(a, b) ==
    IF b = <<>> THEN FALSE
    ELSE IF a = <<>> THEN TRUE
    ELSE IF Head(a) # Head(b) THEN Head(a) < Head(b)
    ELSE ListLess(Tail(a), Tail(b))

KeyLess(a, b) == Len(a) < Len(b) \/ (Len(a) = Len(b) /\ ListLess(a, b))

\* result.sort(key=lambda x: (len(x), x)) on the lists of a set of tuples
RECURSIVE SortByKey(_)
SortByKey(S) ==
    IF S = {} THEN <<>>
    ELSE LET least == CHOOSE t \in S : \A u \in S \ {t} : KeyLess(t, u)
         IN  <<least>> \o SortByKey(S \ {least})

InSeq(x, s) == \E i \in 1..Len(s) : s[i] = x

InitSub ==
    /\ pc = "sub.call"
    /\ args \in [N : 0..MaxN]
    /\ locals = NoValue
    /\ ret = NoValue

\* m, units, subgroups_set = {(1,)}
SubCall ==
    /\ pc = "sub.call"
    /\ LET m == 4 + (args.N % 5)
       IN  locals' = [m |-> m, units |-> UnitsFrom(1, m),
                      subgroups_set |-> {<<1>>}, i |-> 0,
                      subgroup |-> <<>>, x |-> 0]
    /\ pc' = "sub.for"
    /\ UNCHANGED <<args, ret>>

\* for g in units: subgroup = []; x = g
SubNextGenerator ==
    /\ pc = "sub.for"
    /\ locals.i < Len(locals.units)
    /\ locals' = [locals EXCEPT !.i = @ + 1, !.subgroup = <<>>,
                                !.x = locals.units[locals.i + 1]]
    /\ pc' = "sub.while"
    /\ UNCHANGED <<args, ret>>

\* while x not in subgroup: subgroup.append(x); x = (x * g) % m
SubAppend ==
    /\ pc = "sub.while"
    /\ ~InSeq(locals.x, locals.subgroup)
    /\ locals' = [locals EXCEPT
                    !.subgroup = Append(@, locals.x),
                    !.x = (locals.x * locals.units[locals.i]) % locals.m]
    /\ UNCHANGED <<pc, args, ret>>

\* subgroups_set.add(tuple(sorted(subgroup)))
SubAdd ==
    /\ pc = "sub.while"
    /\ InSeq(locals.x, locals.subgroup)
    /\ locals' = [locals EXCEPT
                    !.subgroups_set = @ \cup {Sorted(locals.subgroup)}]
    /\ pc' = "sub.for"
    /\ UNCHANGED <<args, ret>>

\* result = [list(t) for t in subgroups_set]; result.sort(...); return
SubReturn ==
    /\ pc = "sub.for"
    /\ locals.i = Len(locals.units)
    /\ ret' = SortByKey(locals.subgroups_set)
    /\ pc' = "sub.done"
    /\ UNCHANGED <<args, locals>>

NextSub == SubCall \/ SubNextGenerator \/ SubAppend \/ SubAdd \/ SubReturn

SpecSub == InitSub /\ [][NextSub]_vars

\* the group Z_m^* and its subgroups
UnitGroup(m) == {a \in 1..(m - 1) : NatGcd(a, m) = 1}
IsSubgroup(H, m) ==
    /\ H \subseteq UnitGroup(m)
    /\ 1 \in H
    /\ \A a, b \in H : (a * b) % m \in H
AsSet(s) == {s[i] : i \in 1..Len(s)}

(***************************************************************************)
(* C13: subgroups_of_Zm_star(N) returns all subgroups of Z_m^*,            *)
(* m = 4 + N mod 5: every returned list is a subgroup, every subgroup      *)
(* (cyclic or not) appears exactly once, and the list is sorted by         *)
(* (size, elements).                                                       *)
(***************************************************************************)
C13_AllSubgroups ==
    pc = "sub.done" =>
        /\ \A i \in 1..Len(ret) : IsSubgroup(AsSet(ret[i]), locals.m)
        /\ \A H \in SUBSET UnitGroup(locals.m) :
              IsSubgroup(H, locals.m) =>
                  Cardinality({i \in 1..Len(ret) : AsSet(ret[i]) = H}) = 1
        /\ \A i \in 1..Len(ret) : \A j \in (i + 1)..Len(ret) :
              KeyLess(ret[i], ret[j])

\* what the code does return: exactly the cyclic subgroups, sorted
C13_CyclicSubgroupsOnly ==
    pc = "sub.done" =>
        /\ \A i \in 1..Len(ret) : IsSubgroup(AsSet(ret[i]), locals.m)
        /\ \A H \in SUBSET UnitGroup(locals.m) :
              (\E i \in 1..Len(ret) : AsSet(ret[i]) = H) <=>
              (IsSubgroup(H, locals.m) /\ \E g \in H : \A K \in SUBSET H :
                              (g \in K /\ IsSubgroup(K, locals.m)) => K = H)
        /\ \A i \in 1..Len(ret) : \A j \in (i + 1)..Len(ret) :
              KeyLess(ret[i], ret[j])

(***************************************************************************)
(* palindromic_squares_and_circular_primes                                 *)
(***************************************************************************)
\* the loops are followed up to this value of their counter
MaxCount == 200
PalRangeEnd == 100000
PermRangeEnd == 1000000

\* str(n): the decimal digits, most significant first
RECURSIVE Str(_)
Str(n) == IF n < 10 THEN <<n>> ELSE Append(Str(n \div 10), n % 10)

\* int(s) of a digit string
RECURSIVE ParseInt(_)
ParseInt(s) == IF s = <<>> THEN 0 ELSE 10 * ParseInt(SubSeq(s, 1, Len(s) - 1)) + s[Len(s)]

\* int(str(count)[::-1])
ReversedNumber(count) == ParseInt(Reverse(Str(count)))

\* count == int(str(count)[::-1]) and count ** 2 == int(str(count)[::-1]) ** 2
PalindromicTest(count) ==
    /\ count = ReversedNumber(count)
    /\ count * count = ReversedNumber(count) * ReversedNumber(count)

\* sympy.isprime
isprime(n) == n >= 2 /\ \A d \in 2..(n - 1) : d * d > n \/ n % d # 0

\* simple_permutation
simple_permutation(number) ==
    LET string_number == Str(number)
        n == Len(string_number)
        list_perm == [i \in 1..n |->
                        ParseInt(SubSeq(string_number, i, n)
                            \o SubSeq(string_number, 1, i - 1))]
        count == Cardinality({i \in 1..n : isprime(list_perm[i])})
    IN  count = Len(list_perm)

Min(a, b) == IF a < b THEN a ELSE b

InitPal ==
    /\ pc = "pal.call"
    /\ args = <<>>
    /\ locals = NoValue
    /\ ret = NoValue

PalCall ==
    /\ pc = "pal.call"
    /\ locals' = [palindromic |-> <<>>, permutations |-> <<>>,
                  count |-> 1, perm |-> 1]
    /\ pc' = "pal.squares"
    /\ UNCHANGED <<args, ret>>

\* one iteration of for count in range(1, 10 ** 5)
PalStep ==
    /\ pc = "pal.squares"
    /\ locals.count < Min(PalRangeEnd, MaxCount + 1)
    /\ locals' = [locals EXCEPT
                    !.palindromic = IF PalindromicTest(locals.count)
                                    THEN Append(@, locals.count) ELSE @,
                    !.count = @ + 1]
    /\ UNCHANGED <<pc, args, ret>>

PalLoopEnd ==
    /\ pc = "pal.squares"
    /\ locals.count >= Min(PalRangeEnd, MaxCount + 1)
    /\ pc' = "pal.primes"
    /\ UNCHANGED <<args, locals, ret>>

\* one iteration of for perm in range(1, 10 ** 6)
PermStep ==
    /\ pc = "pal.primes"
    /\ locals.perm < Min(PermRangeEnd, MaxCount + 1)
    /\ locals' = [locals EXCEPT
                    !.permutations = IF simple_permutation(locals.perm)
                                     THEN Append(@, locals.perm) ELSE @,
                    !.perm = @ + 1]
    /\ UNCHANGED <<pc, args, ret>>

PalReturn ==
    /\ pc = "pal.primes"
    /\ locals.perm >= Min(PermRangeEnd, MaxCount + 1)
    /\ ret' = <<locals.palindromic, locals.permutations>>
    /\ pc' = "pal.done"
    /\ UNCHANGED <<args, locals>>

NextPal == PalCall \/ PalStep \/ PalLoopEnd \/ PermStep \/ PalReturn

SpecPal == InitPal /\ [][NextPal]_vars

IsPalindrome(n) == Str(n) = Reverse(Str(n))

(***************************************************************************)
(* C14: the first returned list contains exactly the n of the range such   *)
(* that n is a decimal palindrome and n squared is a decimal palindrome:   *)
(* no listed n has a non-palindromic square and no such n is missing.      *)
(***************************************************************************)
C14_PalindromicSquares ==
    pc = "pal.done" =>
        \A n \in 1..(locals.count - 1) :
            InSeq(n, ret[1]) <=> (IsPalindrome(n) /\ IsPalindrome(n * n))

\* what the first list does contain: every palindrome of the range, in order
C14_AllPalindromes ==
    pc = "pal.done" =>
        /\ \A n \in 1..(locals.count - 1) : InSeq(n, ret[1]) <=> IsPalindrome(n)
        /\ \A i \in 1..(Len(ret[1]) - 1) : ret[1][i] < ret[1][i + 1]

(***************************************************************************)
(* Termination of the elimination loop of gcd_F11 and inverse_F13.  Both   *)
(* functions run their loop to its end without interruption, so a step of  *)
(* the function that is possible is eventually taken.                      *)
(***************************************************************************)
\* the call before any local is assigned and before anything is returned
InitExtFair ==
    /\ pc = "ext.call"
    /\ args \in [fn : {"gcd_F11", "inverse_F13"}, N : 0..MaxN]
    /\ locals = [unassigned |-> TRUE]
    /\ ret = [unassigned |-> TRUE]

SpecExtFair == InitExtFair /\ [][NextExt]_vars /\ WF_vars(NextExt)

(***************************************************************************)
(* C15: for the polynomials f, g over GF(11) (gcd_F11) and GF(13)          *)
(* (inverse_F13), the elimination loop terminates: after finitely many     *)
(* steps one of the two remainders is exactly zero and the function        *)
(* returns.                                                                *)
(***************************************************************************)
C15_LoopTerminates ==
    <>(/\ pc = "ext.done"
       /\ (locals.table1[1] = FZero \/ locals.table2[1] = FZero))

\* a return of inverse_F13 after the remainder of g was eliminated to zero
\* by steps that lowered f and g in turn
C15_Witness ==
    /\ pc = "ext.done"
    /\ args.fn = "inverse_F13"
    /\ locals.table2[1] = FZero
    /\ locals.table1[1] # locals.func_f
    /\ FDegree(locals.table1[1]) = 0

(***************************************************************************)
(* The division loop run to its end.  _polynomial_division is sequential   *)
(* and is not suspended, so a step that is possible is eventually taken.   *)
(* Only calls that pass the division-by-zero guard enter the loop.         *)
(***************************************************************************)
MaxLenDivFair == 2

InitDivFair ==
    /\ pc = "div.call"
    /\ args \in {a \in PolyInputsGcd(MaxLenDivFair) \X PolyInputsGcd(MaxLenDivFair) :
                    ~PolyIsZero(a[2])}
    /\ locals = [unassigned |-> TRUE]
    /\ ret = [unassigned |-> TRUE]

SpecDivFair == InitDivFair /\ [][NextDiv]_vars /\ WF_vars(NextDiv)

InLoop == pc = "div.loop"
MaxOf(a, b) == IF a > b THEN a ELSE b

\* a step that stays in the loop has a dividend at least as long as the
\* divisor and not all zero, and removes exactly one coefficient
ReducingStep ==
    (InLoop /\ pc' = "div.loop") =>
        /\ Len(locals.dividend) >= Len(locals.divisor)
        /\ ~PolyIsZero(locals.dividend)
        /\ Len(locals'.dividend) = Len(locals.dividend) - 1
        /\ Len(locals'.quotient) = Len(locals.quotient) + 1
        /\ locals'.divisor = locals.divisor

\* the loop is left exactly when the dividend is shorter than the divisor or
\* all zero, and what is returned is zero or of lower degree than the divisor
LeavingStep ==
    (InLoop /\ pc' = "div.done") =>
        /\ Len(locals.dividend) < Len(locals.divisor) \/ PolyIsZero(locals.dividend)
        /\ PolyIsZero(ret'.remainder) \/ Degree(ret'.remainder) < Degree(args[2])

\* the number of steps taken so far is the number of quotient coefficients
StepsWithin(bound) ==
    pc \in {"div.loop", "div.done"} => Len(locals.quotient) <= bound

(***************************************************************************)
(* C16 as stated, with the lengths of the lists the caller passed: the     *)
(* loop never takes more than len(dividend) - len(divisor) + 1 steps (no   *)
(* step when that number is not positive), and what it returns is zero or *)
(* of lower degree than the divisor.                                       *)
(***************************************************************************)
C16_StepBoundOfArguments ==
    /\ StepsWithin(MaxOf(0, Len(args[1]) - Len(args[2]) + 1))
    /\ pc = "div.done" =>
          PolyIsZero(ret.remainder) \/ Degree(ret.remainder) < Degree(args[2])

(***************************************************************************)
(* C16, amended: for every dividend and non-zero divisor the loop stays in *)
(* Reducing only while the working dividend is at least as long as the     *)
(* divisor and not all zero, removes exactly one coefficient per step, and *)
(* always reaches Done, after at most                                      *)
(* max(0, len(dividend) - len(divisor) + 1) steps counted on the working   *)
(* lists as trimmed at the start of the call, with a remainder that is     *)
(* zero or of degree below the divisor's.                                  *)
(***************************************************************************)
C16_LoopReachesDone ==
    /\ [][ReducingStep /\ LeavingStep]_vars
    /\ [](StepsWithin(MaxOf(0, Len(Trim(args[1])) - Len(Trim(args[2])) + 1)))
    /\ <>(pc = "div.done")

\* a division that took as many steps as allowed, more than the lengths of the
\* passed lists suggest
C16_Witness ==
    /\ pc = "div.done"
    /\ Len(locals.quotient) = 2
    /\ Len(locals.quotient) = Len(Trim(args[1])) - Len(Trim(args[2])) + 1
    /\ Len(locals.quotient) > Len(args[1]) - Len(args[2]) + 1

\* a division that stopped with a non-zero remainder shorter than the divisor
C16_WitnessRemainder ==
    /\ pc = "div.done"
    /\ Len(locals.quotient) = 1
    /\ ~PolyIsZero(ret.remainder)
    /\ Len(ret.remainder) < Len(locals.divisor)

(***************************************************************************)
(* A caller that builds a RingElement from its list L and changes L        *)
(* afterwards.  args holds the caller's objects as before the              *)
(* construction, locals the objects as they are now together with the      *)
(* coefficients the element had when it was built, ret the element.        *)
(***************************************************************************)
InitAlias ==
    /\ pc = "alias.call"
    /\ args \in [heap : [1..1 -> PolyInputs(MaxLenNorm)], L : {1}]
    /\ locals = NoValue
    /\ ret = NoValue

\* e = RingElement(L)
AliasConstruct ==
    /\ pc = "alias.call"
    /\ LET c == HRingElement(args.heap, args.L, TRUE)
       IN  /\ locals' = [heap |-> c[1], built |-> c[1][c[2].data]]
           /\ ret' = c[2]
    /\ pc' = "alias.built"
    /\ UNCHANGED args

\* the caller's L.append(v)
AliasCallerAppends ==
    /\ pc = "alias.built"
    /\ \E v \in Coeffs :
          locals' = [locals EXCEPT !.heap[args.L] = Append(@, Q(v))]
    /\ pc' = "alias.changed"
    /\ UNCHANGED <<args, ret>>

\* the caller's L[0] = v
AliasCallerAssigns ==
    /\ pc = "alias.built"
    /\ \E v \in Coeffs :
          locals' = [locals EXCEPT !.heap[args.L][1] = Q(v)]
    /\ pc' = "alias.changed"
    /\ UNCHANGED <<args, ret>>

NextAlias == AliasConstruct \/ AliasCallerAppends \/ AliasCallerAssigns

SpecAlias == InitAlias /\ [][NextAlias]_vars

(***************************************************************************)
(* C17: constructing RingElement(L) leaves the caller's list L unchanged,  *)
(* and a later change to L does not change the element's coefficients.     *)
(***************************************************************************)
C17_ElementOwnsItsData ==
    /\ pc = "alias.built" => locals.heap[args.L] = args.heap[args.L]
    /\ pc = "alias.changed" => locals.heap[ret.data] = locals.built

\* what holds instead: the element's data is the caller's list itself
C17_ElementSharesTheList ==
    pc \in {"alias.built", "alias.changed"} =>
        /\ ret.data = args.L
        /\ pc = "alias.built" => locals.heap[args.L] = Trim(args.heap[args.L])

=============================================================================
